---- MODULE Spec2Model ----
(***************************************************************************)
(* aiida-basis: basis records (BasisData / PaoData), element-indexed       *)
(* basis sets (BasisSet / OpenmxBasisSet), the recommended orbital         *)
(* configuration mixin and the OpenMX install command.                     *)
(*                                                                         *)
(* The persistent store (aiida-core nodes and groups) is the pair          *)
(* nodes / groups.  One Python instance is modelled per group, so the      *)
(* group record also carries that instance's `_bases` cache.               *)
(***************************************************************************)
EXTENDS Integers, Sequences, FiniteSets, TLC

VARIABLES
    nodes,      \* sequence of basis records; a record's pk is its index
    groups,     \* sequence of basis sets; a group's pk is its index
    result,     \* outcome of the last operation (error raised, value returned)
    goc_log,    \* history of get_or_create calls
    procs       \* the processes that run create_from_folder side by side

vars == <<nodes, groups, result, goc_log, procs>>

(***************************************************************************)
(* Bounds of the model.                                                    *)
(***************************************************************************)
MaxNodes == 3
MaxGroups == 2
MaxBatch == 2
MaxRecords == 1

(***************************************************************************)
(* Values.                                                                 *)
(***************************************************************************)
None == "None"

\* aiida.common.constants.elements, restricted to three atomic numbers
PeriodicTable == (1 :> "H") @@ (2 :> "He") @@ (18 :> "Ar")

ValidSymbols == {PeriodicTable[z] : z \in DOMAIN PeriodicTable}

\* File contents.  A content is identified by its number; PaoText gives what
\* the text holds: whether the AtomSpecies marker is found and its number.
\* Contents 1 and 3 both encode argon but differ in their other bytes.
Contents == 1..12
PaoText(c) ==
    CASE c = 1 -> [marker |-> TRUE, atomic_number |-> 18]
      [] c = 2 -> [marker |-> TRUE, atomic_number |-> 2]
      [] c = 3 -> [marker |-> TRUE, atomic_number |-> 18]
      [] c = 4 -> [marker |-> FALSE, atomic_number |-> 0]
      [] c = 5 -> [marker |-> TRUE, atomic_number |-> 999]
      [] OTHER -> [marker |-> TRUE, atomic_number |-> 2]

\* The text that follows each of the other five markers of a PAO file, None
\* where the marker is not in the file.  Contents 6 to 10 are helium files
\* that each lack one marker, content 11 has a fractional valence.electron
\* and content 12 a radial.cutoff.pao of zero.
ArgonFields ==
    [z_valence |-> "8.0", r_cutoff |-> "7.0", max_occ_n |-> "3", max_l |-> "2", num_pao |-> "13"]

HeliumFields ==
    [z_valence |-> "2.0", r_cutoff |-> "8.0", max_occ_n |-> "1", max_l |-> "1", num_pao |-> "5"]

PaoFields(c) ==
    CASE c = 2 -> HeliumFields
      [] c = 3 -> [ArgonFields EXCEPT !.r_cutoff = "9.0"]
      [] c = 6 -> [HeliumFields EXCEPT !.z_valence = None]
      [] c = 7 -> [HeliumFields EXCEPT !.r_cutoff = None]
      [] c = 8 -> [HeliumFields EXCEPT !.max_occ_n = None]
      [] c = 9 -> [HeliumFields EXCEPT !.max_l = None]
      [] c = 10 -> [HeliumFields EXCEPT !.num_pao = None]
      [] c = 11 -> [HeliumFields EXCEPT !.z_valence = "2.5"]
      [] c = 12 -> [HeliumFields EXCEPT !.r_cutoff = "0.0"]
      [] OTHER -> ArgonFields

\* md5_from_filelike: distinct contents have distinct digests
Md5(c) == <<"md5", c>>

\* parse_element of pao.py
parse_element(c) ==
    LET z == PaoText(c).atomic_number IN
    IF ~PaoText(c).marker THEN [err |-> "ValueError: could not parse the element", element |-> None]
    ELSE IF z \notin DOMAIN PeriodicTable
         THEN [err |-> "ValueError: atomic number not in elements", element |-> None]
         ELSE [err |-> "ok", element |-> PeriodicTable[z]]

\* float(text), in tenths, and int(text)
FloatOf ==
    ("0.0" :> 0) @@ ("2.0" :> 20) @@ ("2.5" :> 25) @@ ("7.0" :> 70) @@ ("8.0" :> 80) @@ ("9.0" :> 90)

IntOf == ("1" :> 1) @@ ("2" :> 2) @@ ("3" :> 3) @@ ("5" :> 5) @@ ("13" :> 13)

\* the values of the attributes of a record; NoValue is an attribute never set
IntValue(v) == <<"int", v>>
FloatValue(tenths) == <<"float", tenths>>
NoValue == <<>>

Parsed(err, value) == [err |-> err, value |-> value]

\* parse_z_valence of pao.py: a float that has to be a whole number
parse_z_valence(c) ==
    LET text == PaoFields(c).z_valence IN
    IF text = None THEN Parsed("ValueError: could not parse the Z valence", NoValue)
    ELSE IF FloatOf[text] % 10 # 0 THEN Parsed("ValueError: Z valence is not an integer", NoValue)
    ELSE Parsed("ok", IntValue(FloatOf[text] \div 10))

\* parse_r_cutoff of pao.py
parse_r_cutoff(c) ==
    LET text == PaoFields(c).r_cutoff IN
    IF text = None THEN Parsed("ValueError: could not parse the radial cutoff", NoValue)
    ELSE Parsed("ok", FloatValue(FloatOf[text]))

\* parse_max_occ_n of pao.py
parse_max_occ_n(c) ==
    LET text == PaoFields(c).max_occ_n IN
    IF text = None THEN Parsed("ValueError: could not parse the maximum occupied n", NoValue)
    ELSE Parsed("ok", IntValue(IntOf[text]))

\* parse_max_l of pao.py
parse_max_l(c) ==
    LET text == PaoFields(c).max_l IN
    IF text = None THEN Parsed("ValueError: could not parse the maximum l", NoValue)
    ELSE Parsed("ok", IntValue(IntOf[text]))

\* parse_num_pao of pao.py
parse_num_pao(c) ==
    LET text == PaoFields(c).num_pao IN
    IF text = None THEN Parsed("ValueError: could not parse the number of PAOs", NoValue)
    ELSE Parsed("ok", IntValue(IntOf[text]))

\* the r_cutoff setter: the value has to be a float above zero
r_cutoff(p) ==
    IF p.err = "ok" /\ p.value[2] <= 0 THEN Parsed("ValueError: not a positive float", NoValue) ELSE p

\* The six assignments of PaoData.set_file, in their order.  Each names the
\* field of the record it writes: the attributes element, z_valence, r_cutoff,
\* max_occ_n and num_pao through their setters, and max_l, which has no setter
\* and is an attribute of the Python object only (the attribute stored under
\* _key_max_l, attribute_max_l here, is written by no statement).
Assignments == <<"element", "z_valence", "r_cutoff", "max_occ_n", "max_l", "num_pao">>

Assigned(field, c) ==
    CASE field = "element" -> Parsed(parse_element(c).err, parse_element(c).element)
      [] field = "z_valence" -> parse_z_valence(c)
      [] field = "r_cutoff" -> r_cutoff(parse_r_cutoff(c))
      [] field = "max_occ_n" -> parse_max_occ_n(c)
      [] field = "max_l" -> parse_max_l(c)
      [] OTHER -> parse_num_pao(c)

\* the assignments run one after the other on record n; the first that raises
\* ends the call and the fields written before it stay written
RECURSIVE ParseInto(_, _, _)
ParseInto(n, c, fields) ==
    IF fields = <<>> THEN [err |-> "ok", node |-> n]
    ELSE LET a == Assigned(Head(fields), c) IN
         IF a.err # "ok" THEN [err |-> a.err, node |-> n]
         ELSE ParseInto([n EXCEPT ![Head(fields)] = a.value], c, Tail(fields))

GroupClasses == {"BasisSet", "OpenmxBasisSet"}
DataClasses == {"BasisData", "PaoData"}

\* Class hierarchy of the data plugins: PaoData is a subclass of BasisData.
IsSubclass(c, sup) == c = sup \/ (c = "PaoData" /\ sup = "BasisData")

IsInstance(c, types) == \E t \in types : IsSubclass(c, t)

\* BasisData.get_entry_point_name
EntryPointName(c) == IF c = "PaoData" THEN "basis.pao" ELSE "basis"

\* A record as constructed by BasisData(source) / PaoData(source): the file
\* and its md5 are set first, PaoData then parses the element from the text.
NoNode ==
    [cls |-> "BasisData", content |-> 0, element |-> None, md5 |-> <<"md5", 0>>, stored |-> FALSE,
     z_valence |-> NoValue, r_cutoff |-> NoValue, max_occ_n |-> NoValue, num_pao |-> NoValue,
     attribute_max_l |-> NoValue, max_l |-> NoValue]

NewBasis(cls, c) ==
    LET file == [NoNode EXCEPT !.cls = cls, !.content = c, !.md5 = Md5(c)] IN
    IF cls = "PaoData"
    THEN LET p == ParseInto(file, c, Assignments) IN
         IF p.err = "ok" THEN p ELSE [err |-> p.err, node |-> NoNode]
    ELSE [err |-> "ok", node |-> file]

\* BasisData.store validation: a valid element and an md5 equal to the file's
CanStore(n) == n.element \in ValidSymbols /\ n.md5 = Md5(n.content)

\* the query of get_or_create changed to match subclasses as well
ExistingSubclassing(cls, c, ns) ==
    {i \in DOMAIN ns : ns[i].stored /\ IsSubclass(ns[i].cls, cls) /\ ns[i].md5 = Md5(c)}

\* The stored records get_or_create finds: same md5, exactly the same class
Existing(cls, c, ns) ==
    {i \in DOMAIN ns : ns[i].stored /\ ns[i].cls = cls /\ ns[i].md5 = Md5(c)}

(***************************************************************************)
(* File names and directories.                                             *)
(***************************************************************************)
LetterChars == {"A", "H", "a", "e", "r", "p", "o", "x"}
WordChars == LetterChars \cup {"2", "_"}

FnAr == <<"A", "r", ".", "p", "a", "o">>
FnHe == <<"H", "e", ".", "p", "a", "o">>
FnAr2 == <<"A", "r", "2", ".", "p", "a", "o">>
FnAa == <<"A", "a", ".", "p", "a", "o">>

\* the characters of a matched symbol joined into the symbol
JoinSymbol(s) ==
    CASE s = <<"A", "r">> -> "Ar"
      [] s = <<"H", "e">> -> "He"
      [] s = <<"A", "a">> -> "Aa"
      [] s = <<"H">> -> "H"
      [] OTHER -> "??"

\* re.search(r'^([A-Za-z]{1,2})\.\w+', filename): k letters, a dot, a word char
MatchAt(fn, k) ==
    /\ Len(fn) >= k + 2
    /\ \A i \in 1..k : fn[i] \in LetterChars
    /\ fn[k + 1] = "."
    /\ fn[k + 2] \in WordChars

FilenameElement(fn) ==
    IF MatchAt(fn, 2) THEN JoinSymbol(SubSeq(fn, 1, 2))
    ELSE IF MatchAt(fn, 1) THEN JoinSymbol(SubSeq(fn, 1, 1))
    ELSE None

File(fn, c) == [name |-> fn, isfile |-> TRUE, content |-> c, sub |-> {}]
SubDir(fn, entries) == [name |-> fn, isfile |-> FALSE, content |-> 0, sub |-> entries]
Dir(entries) == [isdir |-> TRUE, entries |-> entries]

DirA == Dir({File(FnAr, 1), File(FnHe, 2)})
DirB == Dir({File(FnAr, 1), File(FnAr2, 3)})
DirAr3 == Dir({File(FnAr, 3)})
DirNoMarker == Dir({File(FnAr, 1), File(FnHe, 4)})
DirUnknownZ == Dir({File(FnAr, 5)})
DirAa == Dir({File(FnAa, 2)})
DirAr2Only == Dir({File(FnAr2, 3)})
DirEmpty == Dir({})
DirNested == Dir({SubDir(FnAr, {File(FnAr, 1), File(FnHe, 2)})})
DirMixed == Dir({File(FnAr, 1), SubDir(FnHe, {})})
DirSame == Dir({File(FnAr, 1), File(FnHe, 1)})
NotADir == [isdir |-> FALSE, entries |-> {}]

Dirs == {DirA, DirB, DirAr3, DirNoMarker, DirUnknownZ, DirAa, DirAr2Only,
         DirEmpty, DirNested, DirMixed, DirSame, NotADir}

(***************************************************************************)
(* Basis set classes and OpenMX configurations.                            *)
(***************************************************************************)
\* BasisSet._basis_types and OpenmxBasisSet._basis_types
basis_types(gcls) == IF gcls = "OpenmxBasisSet" THEN {"PaoData"} ELSE {"BasisData"}

\* OpenmxBasisSet derives from BasisSet (and from the orbital mixin)
IsGroupSubclass(c, sup) == c = sup \/ (c = "OpenmxBasisSet" /\ sup = "BasisSet")

HasOrbitalMixin(gcls) == gcls = "OpenmxBasisSet"

valid_configurations ==
    {<<"19", "quick", "soft">>, <<"19", "quick", "hard">>,
     <<"19", "standard", "soft">>, <<"19", "standard", "hard">>,
     <<"19", "precise", "soft">>, <<"19", "precise", "hard">>}

\* label_template 'OpenMX/{version}/{protocol}/{hardness}'
format_configuration_label(key) == <<"OpenMX", key[1], key[2], key[3]>>

get_valid_labels == {format_configuration_label(k) : k \in valid_configurations}

\* OpenmxBasisSet.__init__ accepts only the labels of valid configurations
LabelAccepted(gcls, label) == gcls = "OpenmxBasisSet" => label \in get_valid_labels

(***************************************************************************)
(* The outcome of an operation.                                            *)
(***************************************************************************)
NoResult ==
    [op |-> "none", err |-> "ok", named |-> {}, g |-> 0, batch |-> <<>>, label |-> <<>>,
     key |-> <<>>, fetched |-> <<>>, loads |-> 0, fetches |-> 0, urls |-> <<>>,
     cause |-> "ok", cls |-> None, oc |-> <<>>, dir |-> NotADir,
     ret |-> 0, elements |-> [given |-> FALSE, list |-> <<>>], map |-> <<>>,
     none |-> FALSE]

Res(op, err) == [NoResult EXCEPT !.op = op, !.err = err]

\* A process that calls create_from_folder: where it stands in the call, its
\* arguments, the records it parsed, the records it stored, its basis set.
Procs == {1, 2}

IdleProc ==
    [pc |-> "idle", err |-> "ok", cls |-> None, dir |-> NotADir, dedup |-> FALSE,
     bases |-> <<>>, ids |-> <<>>, g |-> 0]

NoProcs == [p \in Procs |-> IdleProc]

(***************************************************************************)
(* The `_bases` cache of a basis set instance and the store's membership.  *)
(***************************************************************************)
EmptyMap == [e \in {} |-> 0]
NoBases == [set |-> FALSE, map |-> EmptyMap]
Cached(m) == [set |-> TRUE, map |-> m]

ElementsOf(ids, ns) == {ns[i].element : i \in ids}

\* {basis.element: basis for basis in ...}: one record per element; when several
\* records carry the same element the one that stays depends on the iteration
\* order of the query, which the store does not fix.
DictsFrom(ids, ns) ==
    {m \in [ElementsOf(ids, ns) -> ids] : \A e \in ElementsOf(ids, ns) : ns[m[e]].element = e}

\* BasisSet.bases: the cache, filled from the store membership when it is None
bases(grp, ns) == IF grp.bases.set THEN {grp.bases.map} ELSE DictsFrom(grp.members, ns)

\* BasisSet.update_basis_type on cache m: the classes of the cached records
CachedTypes(m, ns) == {ns[m[e]].cls : e \in DOMAIN m}

update_basis_type(m, ns) ==
    IF CachedTypes(m, ns) = {} THEN [err |-> "ok", basis_type |-> None]
    ELSE IF Cardinality(CachedTypes(m, ns)) # 1 THEN [err |-> "AssertionError", basis_type |-> None]
    ELSE [err |-> "ok", basis_type |-> EntryPointName(CHOOSE c \in CachedTypes(m, ns) : TRUE)]

Range(s) == {s[i] : i \in DOMAIN s}

\* bases[basis.element] = basis for each record of the batch, in order: a later
\* record of the batch overwrites an earlier one with the same element
BatchDict(batch, ns) ==
    [e \in ElementsOf(Range(batch), ns) |->
        batch[CHOOSE i \in DOMAIN batch :
                /\ ns[batch[i]].element = e
                /\ \A j \in DOMAIN batch : ns[batch[j]].element = e => j <= i]]

\* dict.update
Update(m, d) == [e \in DOMAIN m \cup DOMAIN d |-> IF e \in DOMAIN d THEN d[e] ELSE m[e]]

Outcome(err, named, grp) == [err |-> err, named |-> named, grp |-> grp]

\* BasisSet.add_nodes once the cache holds m
AddToCache(grp, batch, ns, m) ==
    LET conflicts == {i \in DOMAIN batch : ns[batch[i]].element \in DOMAIN m}
        first == CHOOSE i \in conflicts : \A j \in conflicts : i <= j
        newmap == Update(m, BatchDict(batch, ns))
        typ == update_basis_type(newmap, ns)
    IN  IF conflicts # {}
        THEN Outcome("ValueError: element already present", {ns[batch[first]].element},
                     [grp EXCEPT !.bases = Cached(m)])
        ELSE IF typ.err # "ok"
        THEN Outcome(typ.err, {}, [grp EXCEPT !.bases = Cached(newmap)])
        ELSE IF \E i \in DOMAIN batch : ~ns[batch[i]].stored
        THEN Outcome("ValueError: unstored node", {},
                     [grp EXCEPT !.bases = Cached(newmap), !.basis_type = typ.basis_type])
        ELSE Outcome("ok", {},
                     [grp EXCEPT !.bases = Cached(newmap), !.basis_type = typ.basis_type,
                                 !.members = grp.members \cup Range(batch)])

\* add_nodes changed to test the kinds of the records after the elements
add_nodes_kind_last(grp, batch, ns) ==
    IF ~grp.stored
    THEN {Outcome("ModificationNotAllowed", {}, grp)}
    ELSE { LET o == AddToCache(grp, batch, ns, m) IN
           IF o.err = "ValueError: element already present" THEN o
           ELSE IF \E i \in DOMAIN batch : ~IsInstance(ns[batch[i]].cls, basis_types(grp.cls))
           THEN Outcome("TypeError", {}, grp)
           ELSE o
           : m \in bases(grp, ns) }

\* BasisSet.add_nodes: the possible outcomes for group record grp
add_nodes(grp, batch, ns) ==
    IF ~grp.stored
    THEN {Outcome("ModificationNotAllowed", {}, grp)}
    ELSE IF \E i \in DOMAIN batch : ~IsInstance(ns[batch[i]].cls, basis_types(grp.cls))
    THEN {Outcome("TypeError", {}, grp)}
    ELSE {AddToCache(grp, batch, ns, m) : m \in bases(grp, ns)}

\* BasisSet.remove_nodes
remove_nodes(grp, batch, ns) ==
    IF ~grp.stored
    THEN {Outcome("ModificationNotAllowed", {}, grp)}
    ELSE IF \E i \in DOMAIN batch : ~ns[batch[i]].stored
    THEN {Outcome("ValueError: unstored node", {}, grp)}
    ELSE LET detached == [grp EXCEPT !.members = grp.members \ Range(batch)] IN
         UNION {
           { LET typ == update_basis_type(kept, ns) IN
             IF typ.err # "ok"
             THEN Outcome(typ.err, {}, [detached EXCEPT !.bases = Cached(kept)])
             ELSE Outcome("ok", {}, [detached EXCEPT !.bases = Cached(kept), !.basis_type = typ.basis_type])
             : kept \in DictsFrom({m[e] : e \in DOMAIN m} \ Range(batch), ns) }
           : m \in bases(detached, ns) }

\* BasisSet.clear: the cache is reset and refilled from the emptied membership
clear(grp, ns) ==
    IF ~grp.stored
    THEN {Outcome("ModificationNotAllowed", {}, grp)}
    ELSE {Outcome("ok", {}, [grp EXCEPT !.members = {}, !.bases = Cached(EmptyMap), !.basis_type = None])}

\* the store query of BasisSet.get_basis
QueryBasis(grp, element, ns) ==
    {i \in grp.members : IsInstance(ns[i].cls, basis_types(grp.cls)) /\ ns[i].element = element}

\* BasisSet.get_basis
get_basis(grp, element, ns) ==
    { IF element \in DOMAIN m
      THEN [err |-> "ok", ret |-> m[element], grp |-> [grp EXCEPT !.bases = Cached(m)]]
      ELSE IF QueryBasis(grp, element, ns) = {}
      THEN [err |-> "ValueError: no basis for element", ret |-> 0, grp |-> [grp EXCEPT !.bases = Cached(m)]]
      ELSE IF Cardinality(QueryBasis(grp, element, ns)) > 1
      THEN [err |-> "RuntimeError: multiple bases", ret |-> 0, grp |-> [grp EXCEPT !.bases = Cached(m)]]
      ELSE LET b == CHOOSE i \in QueryBasis(grp, element, ns) : TRUE IN
           [err |-> "ok", ret |-> b,
            grp |-> [grp EXCEPT !.bases = Cached(Update(m, [e \in {element} |-> b]))]]
      : m \in bases(grp, ns) }

\* {element: self.get_basis(element) for element in elements}: the first
\* get_basis that raises ends the call; acc is the mapping built so far
RECURSIVE GetEach(_, _, _, _)
GetEach(grp, elements, ns, acc) ==
    IF elements = <<>> THEN {[err |-> "ok", named |-> {}, map |-> acc, grp |-> grp]}
    ELSE UNION {
           IF o.err # "ok"
           THEN {[err |-> o.err, named |-> {Head(elements)}, map |-> <<>>, grp |-> o.grp]}
           ELSE GetEach(o.grp, Tail(elements), ns, Update(acc, [e \in {Head(elements)} |-> o.ret]))
           : o \in get_basis(grp, Head(elements), ns) }

\* BasisSet.get_bases(elements=elements), no structure given; elements is a
\* list of symbols when given, None otherwise
get_bases(grp, elements, ns) ==
    IF ~elements.given
    THEN {[err |-> "ValueError: have to specify elements or structure", named |-> {},
           map |-> <<>>, grp |-> grp]}
    ELSE GetEach(grp, elements.list, ns, EmptyMap)

(***************************************************************************)
(* Recommended orbital configurations (the mixin of OpenmxBasisSet).       *)
(***************************************************************************)
\* one component of an orbital configuration: isint is isinstance(n, int)
Comp(v) == [isint |-> TRUE, val |-> v]
NotAnInt == [isint |-> FALSE, val |-> 0]

OCValid == <<Comp(2), Comp(1), Comp(0), Comp(0)>>
OCShort == <<Comp(2), Comp(1), Comp(0)>>
OCNegative == <<Comp(-1), Comp(1), Comp(0), Comp(0)>>
OCFloat == <<Comp(2), NotAnInt, Comp(0), Comp(0)>>

\* an orbital configurations dictionary giving configuration v to every key
OCMap(keys, v) == [k \in keys |-> v]

\* the dictionaries handed to set_orbital_configurations: every key set with
\* well-formed configurations, and some dictionaries with a malformed entry
OrbitalMappings ==
    {OCMap(K, OCValid) : K \in SUBSET ValidSymbols}
    \cup {OCMap({"Ar"}, OCShort), OCMap({"Ar"}, OCNegative), OCMap({"Ar"}, OCFloat),
          ("Ar" :> OCValid) @@ ("He" :> OCShort), ("Ar" :> OCNegative) @@ ("He" :> OCValid)}

NoOrbitals == [set |-> FALSE, map |-> EmptyMap]

SymDiff(a, b) == (a \ b) \cup (b \ a)

StrictSubset(a, b) == a \subseteq b /\ a # b

\* RecommendedOrbitalConfigurationMixin.validate_orbital_configurations.
\* The entries are visited in the order of the dictionary, which the caller
\* chooses: the entry reported is any entry that fails its checks.
validate_orbital_configurations(elements, oc) ==
    LET keys == DOMAIN oc
        bad == {k \in keys : Len(oc[k]) # 4 \/ \E i \in DOMAIN oc[k] : ~oc[k][i].isint}
    IN  IF StrictSubset(elements, keys)
        THEN {[err |-> "ValueError: unsupported elements", named |-> SymDiff(elements, keys)]}
        ELSE IF StrictSubset(keys, elements)
        THEN {[err |-> "ValueError: not defined for all elements", named |-> SymDiff(elements, keys)]}
        ELSE IF bad # {}
        THEN {[err |-> IF Len(oc[k]) # 4 THEN "ValueError: invalid length" ELSE "ValueError: invalid values",
               named |-> {k}] : k \in bad}
        ELSE {[err |-> "ok", named |-> {}]}

\* RecommendedOrbitalConfigurationMixin.set_orbital_configurations
set_orbital_configurations(grp, oc, ns) ==
    UNION {
      { IF v.err # "ok"
        THEN Outcome(v.err, v.named, [grp EXCEPT !.bases = Cached(m)])
        ELSE Outcome("ok", {}, [grp EXCEPT !.bases = Cached(m), !.orbitals = [set |-> TRUE, map |-> oc]])
        : v \in validate_orbital_configurations(DOMAIN m, oc) }
      : m \in bases(grp, ns) }

\* RecommendedOrbitalConfigurationMixin.get_orbital_configurations:
\* get_extra(_key_orbital_configurations, {}), the empty dictionary when the
\* extra was never set; none tells whether the value returned is None
get_orbital_configurations(grp) ==
    [none |-> FALSE, map |-> IF grp.orbitals.set THEN grp.orbitals.map ELSE EmptyMap]

(***************************************************************************)
(* Parsing a directory and creating a basis set from it.                   *)
(***************************************************************************)
\* BasisData.get_or_create: an existing stored record of exactly this class
\* with the same md5 if there is one, else a newly constructed record.
\* id = 0 marks a record that is not in the store yet.
get_or_create(cls, c, ns) ==
    IF Existing(cls, c, ns) # {}
    THEN {[err |-> "ok", id |-> i, node |-> ns[i]] : i \in Existing(cls, c, ns)}
    ELSE {[err |-> NewBasis(cls, c).err, id |-> 0, node |-> NewBasis(cls, c).node]}

\* the loop body changed to take the element from the file name also when the
\* record already has one
ParseBasisFileDeclared(f, bt, dedup, ns) ==
    IF ~f.isfile
    THEN {[err |-> "ValueError: entry is not a file", id |-> 0, node |-> NoNode]}
    ELSE { IF b.err # "ok" THEN b
           ELSE IF FilenameElement(f.name) = None
           THEN [b EXCEPT !.err = "ParsingError: no element"]
           ELSE IF FilenameElement(f.name) \notin ValidSymbols
           THEN [b EXCEPT !.err = "ValueError: not a valid element"]
           ELSE [b EXCEPT !.node.element = FilenameElement(f.name)]
           : b \in IF dedup THEN get_or_create(bt, f.content, ns)
                   ELSE {[err |-> NewBasis(bt, f.content).err, id |-> 0, node |-> NewBasis(bt, f.content).node]} }

\* the body of the loop of parse_bases_from_directory for one directory entry
ParseBasisFile(f, bt, dedup, ns) ==
    IF ~f.isfile
    THEN {[err |-> "ValueError: entry is not a file", id |-> 0, node |-> NoNode]}
    ELSE { IF b.err # "ok" THEN b
           ELSE IF b.node.element # None THEN b
           ELSE IF FilenameElement(f.name) = None
           THEN [b EXCEPT !.err = "ParsingError: no element"]
           ELSE IF FilenameElement(f.name) \notin ValidSymbols
           THEN [b EXCEPT !.err = "ValueError: not a valid element"]
           ELSE [b EXCEPT !.node.element = FilenameElement(f.name)]
           : b \in IF dedup THEN get_or_create(bt, f.content, ns)
                   ELSE {[err |-> NewBasis(bt, f.content).err, id |-> 0, node |-> NewBasis(bt, f.content).node]} }

RECURSIVE ParseFiles(_, _, _, _)
ParseFiles(order, bt, dedup, ns) ==
    IF order = <<>> THEN {[err |-> "ok", bases |-> <<>>]}
    ELSE UNION {
           IF h.err # "ok" THEN {[err |-> h.err, bases |-> <<>>]}
           ELSE { IF t.err # "ok" THEN t
                  ELSE [err |-> "ok", bases |-> <<[id |-> h.id, node |-> h.node]>> \o t.bases]
                  : t \in ParseFiles(Tail(order), bt, dedup, ns) }
           : h \in ParseBasisFile(Head(order), bt, dedup, ns) }

\* os.listdir: the entries in some order
Listings(entries) ==
    {o \in [1..Cardinality(entries) -> entries] : \A i, j \in DOMAIN o : o[i] = o[j] => i = j}

\* BasisSet._validate_dirpath: a directory holding one directory is descended
_validate_dirpath(dir) ==
    IF ~dir.isdir THEN [err |-> "ValueError: not a directory", entries |-> {}]
    ELSE IF Cardinality(dir.entries) = 1 /\ \A f \in dir.entries : ~f.isfile
    THEN [err |-> "ok", entries |-> UNION {f.sub : f \in dir.entries}]
    ELSE [err |-> "ok", entries |-> dir.entries]

\* BasisSet._validate_basis_type; basis_type None selects _basis_types[0]
_validate_basis_type(gcls, basis_type) ==
    LET bt == IF basis_type = None THEN CHOOSE t \in basis_types(gcls) : TRUE ELSE basis_type IN
    IF basis_type = None /\ Cardinality(basis_types(gcls)) > 1
    THEN [err |-> "ValueError: basis_type needs to be passed", basis_type |-> bt]
    ELSE IF ~IsInstance(bt, basis_types(gcls))
    THEN [err |-> "ValueError: basis_type not supported", basis_type |-> bt]
    ELSE [err |-> "ok", basis_type |-> bt]

\* BasisSet.parse_bases_from_directory
parse_bases_from_directory(gcls, dir, basis_type, dedup, ns) ==
    LET d == _validate_dirpath(dir)
        t == _validate_basis_type(gcls, basis_type)
    IN  IF d.err # "ok" THEN {[err |-> d.err, bases |-> <<>>]}
        ELSE IF t.err # "ok" THEN {[err |-> t.err, bases |-> <<>>]}
        ELSE UNION {
               { IF p.err # "ok" THEN p
                 ELSE IF p.bases = <<>> THEN [err |-> "ValueError: no bases were parsed", bases |-> <<>>]
                 ELSE IF Len(p.bases) # Cardinality({p.bases[i].node.element : i \in DOMAIN p.bases})
                 THEN [err |-> "ValueError: duplicate elements", bases |-> <<>>]
                 ELSE p
                 : p \in ParseFiles(o, t.basis_type, dedup, ns) }
               : o \in Listings(d.entries) }

\* [basis.store() for basis in bases]: stops at the first record that may not
\* be stored; the records stored before it stay stored
RECURSIVE StoreBases(_, _)
StoreBases(bs, ns) ==
    IF bs = <<>> THEN [err |-> "ok", nodes |-> ns, ids |-> <<>>]
    ELSE LET b == Head(bs) IN
         IF ~CanStore(b.node) THEN [err |-> "StoringNotAllowed", nodes |-> ns, ids |-> <<>>]
         ELSE LET ns1 == IF b.id = 0 THEN Append(ns, [b.node EXCEPT !.stored = TRUE])
                         ELSE [ns EXCEPT ![b.id] = b.node]
                  id == IF b.id = 0 THEN Len(ns1) ELSE b.id
                  rest == StoreBases(Tail(bs), ns1)
              IN  [err |-> rest.err, nodes |-> rest.nodes, ids |-> <<id>> \o rest.ids]

\* cls.objects.get(label=label): the stored groups of the class (or of a
\* subclass of it) that carry the label
Labelled(gcls, label, gs) ==
    {g \in DOMAIN gs : gs[g].stored /\ ~gs[g].deleted /\ gs[g].label = label
                       /\ IsGroupSubclass(gs[g].cls, gcls)}

\* the constructor BasisSet(label=label)
NewGroup(gcls, label) ==
    [label |-> label, cls |-> gcls, stored |-> FALSE, deleted |-> FALSE, members |-> {},
     bases |-> NoBases, basis_type |-> None, orbitals |-> NoOrbitals]

Created(err, ns, gs, g) == [err |-> err, nodes |-> ns, groups |-> gs, g |-> g]

\* Group.store: the store keeps (label, class) unique
StoreConflict(gcls, label, gs) ==
    \E g \in DOMAIN gs : gs[g].stored /\ ~gs[g].deleted /\ gs[g].label = label /\ gs[g].cls = gcls

\* create_from_folder changed to store the basis set before the directory is parsed
create_from_folder_store_first(gcls, label, dir, basis_type, dedup, ns, gs) ==
    IF Cardinality(Labelled(gcls, label, gs)) > 1
    THEN {Created("MultipleObjectsError", ns, gs, 0)}
    ELSE IF Labelled(gcls, label, gs) # {}
    THEN {Created("ValueError: label already exists", ns, gs, 0)}
    ELSE IF ~LabelAccepted(gcls, label)
    THEN {Created("ValueError: not a valid OpenMX label", ns, gs, 0)}
    ELSE IF StoreConflict(gcls, label, gs) THEN {Created("IntegrityError", ns, gs, 0)}
    ELSE LET grp == [NewGroup(gcls, label) EXCEPT !.stored = TRUE] IN
         UNION {
           IF p.err # "ok" THEN {Created(p.err, ns, Append(gs, grp), 0)}
           ELSE LET st == StoreBases(p.bases, ns)
                IN  IF st.err # "ok"
                    THEN {Created(st.err, st.nodes, Append(gs, grp), Len(gs) + 1)}
                    ELSE {Created(a.err, st.nodes, Append(gs, a.grp), Len(gs) + 1)
                          : a \in add_nodes(grp, st.ids, st.nodes)}
           : p \in parse_bases_from_directory(gcls, dir, basis_type, dedup, ns) }

\* create_from_folder changed to attach only the first of the parsed records
create_from_folder_first_only(gcls, label, dir, basis_type, dedup, ns, gs) ==
    IF Cardinality(Labelled(gcls, label, gs)) > 1
    THEN {Created("MultipleObjectsError", ns, gs, 0)}
    ELSE IF Labelled(gcls, label, gs) # {}
    THEN {Created("ValueError: label already exists", ns, gs, 0)}
    ELSE IF ~LabelAccepted(gcls, label)
    THEN {Created("ValueError: not a valid OpenMX label", ns, gs, 0)}
    ELSE UNION {
           IF p.err # "ok" THEN {Created(p.err, ns, gs, 0)}
           ELSE IF StoreConflict(gcls, label, gs) THEN {Created("IntegrityError", ns, gs, 0)}
           ELSE LET grp == [NewGroup(gcls, label) EXCEPT !.stored = TRUE]
                    st == StoreBases(p.bases, ns)
                IN  IF st.err # "ok"
                    THEN {Created(st.err, st.nodes, Append(gs, grp), Len(gs) + 1)}
                    ELSE {Created(a.err, st.nodes, Append(gs, a.grp), Len(gs) + 1)
                          : a \in add_nodes(grp, SubSeq(st.ids, 1, 1), st.nodes)}
           : p \in parse_bases_from_directory(gcls, dir, basis_type, dedup, ns) }

\* BasisSet.create_from_folder: the possible results on store (ns, gs)
create_from_folder(gcls, label, dir, basis_type, dedup, ns, gs) ==
    IF Cardinality(Labelled(gcls, label, gs)) > 1
    THEN {Created("MultipleObjectsError", ns, gs, 0)}
    ELSE IF Labelled(gcls, label, gs) # {}
    THEN {Created("ValueError: label already exists", ns, gs, 0)}
    ELSE IF ~LabelAccepted(gcls, label)
    THEN {Created("ValueError: not a valid OpenMX label", ns, gs, 0)}
    ELSE UNION {
           IF p.err # "ok" THEN {Created(p.err, ns, gs, 0)}
           ELSE IF StoreConflict(gcls, label, gs) THEN {Created("IntegrityError", ns, gs, 0)}
           ELSE LET grp == [NewGroup(gcls, label) EXCEPT !.stored = TRUE]
                    st == StoreBases(p.bases, ns)
                IN  IF st.err # "ok"
                    THEN {Created(st.err, st.nodes, Append(gs, grp), Len(gs) + 1)}
                    ELSE {Created(a.err, st.nodes, Append(gs, a.grp), Len(gs) + 1)
                          : a \in add_nodes(grp, st.ids, st.nodes)}
           : p \in parse_bases_from_directory(gcls, dir, basis_type, dedup, ns) }

(***************************************************************************)
(* The history of get_or_create calls.                                     *)
(***************************************************************************)
\* the files get_or_create is called with: the argon file under its own name
\* and under the name of helium, the helium file, and a file without the
\* AtomSpecies marker under a name that yields no element
NodeFiles == {File(FnAr, 1), File(FnHe, 1), File(FnHe, 2), File(FnAr2, 4)}

\* the history kept per (class, content): the records returned so far and the
\* number of successful calls, counted up to 2
GocKeys == {<<cls, c>> : cls \in DataClasses, c \in {f.content : f \in NodeFiles}}
NoCalls == [k \in GocKeys |-> [rets |-> {}, calls |-> 0]]
Logged(log, k, id) ==
    [log EXCEPT ![k] = [rets |-> @.rets \cup {id}, calls |-> IF @.calls < 2 THEN @.calls + 1 ELSE 2]]

(***************************************************************************)
(* Operations on basis sets.                                               *)
(***************************************************************************)
LabelFamily == <<"family">>
LabelSoft == format_configuration_label(<<"19", "standard", "soft">>)
Labels == {LabelFamily, LabelSoft}

\* the lists of records an operation may be handed: every list of up to two
\* records, the same record twice included, and the longer ones in the order
\* of their identities
Batches ==
    {b \in UNION {[1..n -> DOMAIN nodes] : n \in 0..MaxBatch} :
        Len(b) > 2 => \A i, j \in DOMAIN b : i < j => b[i] < b[j]}

\* the lists of element symbols get_bases may be handed, or none at all
NoElements == [given |-> FALSE, list |-> <<>>]

ElementLists ==
    {[given |-> TRUE, list |-> l] : l \in UNION {[1..n -> ValidSymbols] : n \in 0..MaxBatch}}
    \cup {NoElements}

Live(g) == g \in DOMAIN groups /\ ~groups[g].deleted

\* the outcome keeps the directory of a call that succeeded
CreateFromFolder(gcls, label, dir, basis_type, dedup) ==
    \E c \in create_from_folder(gcls, label, dir, basis_type, dedup, nodes, groups) :
        /\ Len(c.nodes) <= MaxNodes
        /\ Len(c.groups) <= MaxGroups
        /\ nodes' = c.nodes
        /\ groups' = c.groups
        /\ result' = [Res("create_from_folder", c.err) EXCEPT
                         !.cls = gcls, !.label = label, !.g = c.g,
                         !.dir = IF c.err = "ok" THEN dir ELSE @]
        /\ UNCHANGED <<goc_log, procs>>

AddNodes(g, batch) ==
    /\ Live(g)
    /\ \E o \in add_nodes(groups[g], batch, nodes) :
        /\ groups' = [groups EXCEPT ![g] = o.grp]
        /\ result' = [Res("add_nodes", o.err) EXCEPT !.g = g, !.batch = batch, !.named = o.named]
    /\ UNCHANGED <<nodes, goc_log, procs>>

RemoveNodes(g, batch) ==
    /\ Live(g)
    /\ \E o \in remove_nodes(groups[g], batch, nodes) :
        /\ groups' = [groups EXCEPT ![g] = o.grp]
        /\ result' = [Res("remove_nodes", o.err) EXCEPT !.g = g, !.batch = batch]
    /\ UNCHANGED <<nodes, goc_log, procs>>

Clear(g) ==
    /\ Live(g)
    /\ \E o \in clear(groups[g], nodes) :
        /\ groups' = [groups EXCEPT ![g] = o.grp]
        /\ result' = [Res("clear", o.err) EXCEPT !.g = g]
    /\ UNCHANGED <<nodes, goc_log, procs>>

GetBasis(g, element) ==
    /\ Live(g)
    /\ \E o \in get_basis(groups[g], element, nodes) :
        /\ groups' = [groups EXCEPT ![g] = o.grp]
        /\ result' = [Res("get_basis", o.err) EXCEPT !.g = g, !.named = {element}, !.ret = o.ret]
    /\ UNCHANGED <<nodes, goc_log, procs>>

GetOrbitalConfigurations(g) ==
    /\ Live(g)
    /\ HasOrbitalMixin(groups[g].cls)
    /\ result' = [Res("get_orbital_configurations", "ok") EXCEPT
                     !.g = g, !.oc = get_orbital_configurations(groups[g]).map,
                     !.none = get_orbital_configurations(groups[g]).none]
    /\ UNCHANGED <<nodes, groups, goc_log, procs>>

GetBases(g, elements) ==
    /\ Live(g)
    /\ \E o \in get_bases(groups[g], elements, nodes) :
        /\ groups' = [groups EXCEPT ![g] = o.grp]
        /\ result' = [Res("get_bases", o.err) EXCEPT
                         !.g = g, !.elements = elements, !.named = o.named, !.map = o.map]
    /\ UNCHANGED <<nodes, goc_log, procs>>

SetOrbitalConfigurations(g, oc) ==
    /\ Live(g)
    /\ HasOrbitalMixin(groups[g].cls)
    /\ \E o \in set_orbital_configurations(groups[g], oc, nodes) :
        /\ groups' = [groups EXCEPT ![g] = o.grp]
        /\ result' = [Res("set_orbital_configurations", o.err) EXCEPT
                         !.g = g, !.oc = oc, !.named = o.named]
    /\ UNCHANGED <<nodes, goc_log, procs>>

(***************************************************************************)
(* The basis set specification: a basis set is created in a store of three *)
(* records, then any sequence of the basis set operations on it.           *)
(***************************************************************************)
\* The store the operations start from: three PaoData records that were
\* constructed and stored (argon, helium, and a second argon file), no group.
StoredPao(c) == [NewBasis("PaoData", c).node EXCEPT !.stored = TRUE]

Init ==
    /\ nodes = <<StoredPao(1), StoredPao(2), StoredPao(3)>>
    /\ groups = <<>>
    /\ result = NoResult
    /\ goc_log = NoCalls
    /\ procs = NoProcs

\* the arguments create_from_folder is called with next to the other operations
SetDirs == {DirA, DirB, DirAr3}

Next ==
    \/ \E gcls \in GroupClasses, label \in Labels, dir \in SetDirs,
          basis_type \in {None, "PaoData"}, dedup \in BOOLEAN :
          groups = <<>> /\ CreateFromFolder(gcls, label, dir, basis_type, dedup)
    \/ \E g \in DOMAIN groups, batch \in Batches : AddNodes(g, batch)
    \/ \E g \in DOMAIN groups, batch \in Batches : RemoveNodes(g, batch)
    \/ \E g \in DOMAIN groups : Clear(g)
    \/ \E g \in DOMAIN groups, element \in ValidSymbols : GetBasis(g, element)
    \/ \E g \in DOMAIN groups, elements \in ElementLists : GetBases(g, elements)
    \/ \E g \in DOMAIN groups, oc \in OrbitalMappings : SetOrbitalConfigurations(g, oc)
    \/ \E g \in DOMAIN groups : GetOrbitalConfigurations(g)

Spec == Init /\ [][Next]_vars

(***************************************************************************)
(* The folder specification: an empty store, then any sequence of          *)
(* create_from_folder calls over every class, label, directory, basis type *)
(* and deduplication flag.                                                 *)
(***************************************************************************)
InitFolder ==
    /\ nodes = <<>>
    /\ groups = <<>>
    /\ result = NoResult
    /\ goc_log = NoCalls
    /\ procs = NoProcs

NextFolder ==
    \E gcls \in GroupClasses, label \in Labels, dir \in Dirs,
       basis_type \in DataClasses \cup {None}, dedup \in BOOLEAN :
       CreateFromFolder(gcls, label, dir, basis_type, dedup)

SpecFolder == InitFolder /\ [][NextFolder]_vars

(***************************************************************************)
(* Basis records: get_or_create as parse_bases_from_directory uses it for  *)
(* one file (the lookup, then the element taken from the file name when    *)
(* the record has none), and store.                                        *)
(***************************************************************************)
\* The record returned is the stored record itself: what the loop body does
\* to it is done to the record in the store.
GetOrCreate(cls, f) ==
    \E b \in ParseBasisFile(f, cls, TRUE, nodes) :
        /\ b.id = 0 /\ b.err = "ok" => Len(nodes) < MaxNodes
        /\ LET id == IF b.err # "ok" THEN 0 ELSE IF b.id = 0 THEN Len(nodes) + 1 ELSE b.id IN
           /\ nodes' = IF b.err # "ok" THEN nodes
                       ELSE IF b.id = 0 THEN Append(nodes, b.node)
                       ELSE [nodes EXCEPT ![b.id] = b.node]
           /\ result' = [Res("get_or_create", b.err) EXCEPT
                            !.ret = id, !.key = <<cls, f.content, FilenameElement(f.name)>>]
           /\ goc_log' = IF b.err = "ok" THEN Logged(goc_log, <<cls, f.content>>, id) ELSE goc_log
        /\ UNCHANGED <<groups, procs>>

\* BasisData.store: a stored record is returned as it is
Store(n) ==
    /\ n \in DOMAIN nodes
    /\ IF nodes[n].stored
       THEN /\ result' = [Res("store", "ok") EXCEPT !.ret = n]
            /\ UNCHANGED nodes
       ELSE IF CanStore(nodes[n])
       THEN /\ nodes' = [nodes EXCEPT ![n].stored = TRUE]
            /\ result' = [Res("store", "ok") EXCEPT !.ret = n]
       ELSE /\ result' = [Res("store", "StoringNotAllowed") EXCEPT !.ret = n]
            /\ UNCHANGED nodes
    /\ UNCHANGED <<groups, goc_log, procs>>

NextNodes ==
    \/ \E cls \in DataClasses, f \in NodeFiles : GetOrCreate(cls, f)
    \/ \E n \in DOMAIN nodes : Store(n)

SpecNodes == InitFolder /\ [][NextNodes]_vars

(***************************************************************************)
(* The records specification: records are constructed, changed through     *)
(* their setters and set_file, and stored.                                 *)
(***************************************************************************)
RecordContents == {1, 2, 4}
AssignedElements == {"He", "Aa"}
BadMd5 == <<"md5", 0>>
AssignedMd5s == {Md5(1), BadMd5}

Rec(err, node) == [err |-> err, node |-> node]

\* the element setter: the symbol is validated, then the attribute is set
set_element(n, e) ==
    IF n.stored THEN Rec("ModificationNotAllowed", n)
    ELSE IF e \notin ValidSymbols THEN Rec("ValueError: not a valid element", n)
    ELSE Rec("ok", [n EXCEPT !.element = e])

\* the md5 setter: the digest is compared with that of the file, then set
set_md5(n, m) ==
    IF n.stored THEN Rec("ModificationNotAllowed", n)
    ELSE IF m # Md5(n.content) THEN Rec("ValueError: md5 does not match", n)
    ELSE Rec("ok", [n EXCEPT !.md5 = m])

\* set_attribute(_key_md5, m): the attribute is set without validation
set_attribute_md5(n, m) ==
    IF n.stored THEN Rec("ModificationNotAllowed", n)
    ELSE Rec("ok", [n EXCEPT !.md5 = m])

\* set_file changed to replace the file of a stored record as well
set_file_any(n, c) ==
    LET replaced == [n EXCEPT !.content = c, !.md5 = Md5(c)] IN
    IF n.cls # "PaoData" THEN Rec("ok", replaced)
    ELSE ParseInto(replaced, c, Assignments)

\* set_file: BasisData.set_file replaces the file and its md5; PaoData.set_file
\* then parses the new content field by field, and what was replaced or
\* assigned stays so when a later field fails
set_file(n, c) ==
    IF n.stored THEN Rec("ModificationNotAllowed", n)
    ELSE LET replaced == [n EXCEPT !.content = c, !.md5 = Md5(c)] IN
         IF n.cls # "PaoData" THEN Rec("ok", replaced)
         ELSE ParseInto(replaced, c, Assignments)

\* store changed to skip its validation
store_unvalidated(n) == Rec("ok", [n EXCEPT !.stored = TRUE])

\* store: a stored record is returned as it is; an unstored one is validated
store(n) ==
    IF n.stored THEN Rec("ok", n)
    ELSE IF n.element \notin ValidSymbols THEN Rec("StoringNotAllowed: no valid element", n)
    ELSE IF n.md5 # Md5(n.content) THEN Rec("StoringNotAllowed: md5 does not match", n)
    ELSE Rec("ok", [n EXCEPT !.stored = TRUE])

\* the constructor cls(source)
Construct(cls, c) ==
    /\ Len(nodes) < MaxRecords
    /\ LET b == NewBasis(cls, c) IN
       IF b.err = "ok"
       THEN /\ nodes' = Append(nodes, b.node)
            /\ result' = [Res("construct", "ok") EXCEPT !.ret = Len(nodes) + 1]
       ELSE /\ result' = Res("construct", b.err)
            /\ UNCHANGED nodes
    /\ UNCHANGED <<groups, goc_log, procs>>

Apply(op, n, o) ==
    /\ nodes' = [nodes EXCEPT ![n] = o.node]
    /\ result' = [Res(op, o.err) EXCEPT !.ret = n]
    /\ UNCHANGED <<groups, goc_log, procs>>

SetElement(n, e) == Apply("set_element", n, set_element(nodes[n], e))

SetMd5(n, m) == Apply("set_md5", n, set_md5(nodes[n], m))

SetAttributeMd5(n, m) == Apply("set_attribute", n, set_attribute_md5(nodes[n], m))

SetFile(n, c) == Apply("set_file", n, set_file(nodes[n], c))

StoreRecord(n) == Apply("store", n, store(nodes[n]))

NextRecords ==
    \/ \E cls \in DataClasses, c \in RecordContents : Construct(cls, c)
    \/ \E n \in DOMAIN nodes, e \in AssignedElements : SetElement(n, e)
    \/ \E n \in DOMAIN nodes, m \in AssignedMd5s : SetMd5(n, m)
    \/ \E n \in DOMAIN nodes, m \in AssignedMd5s : SetAttributeMd5(n, m)
    \/ \E n \in DOMAIN nodes, c \in RecordContents : SetFile(n, c)
    \/ \E n \in DOMAIN nodes : StoreRecord(n)

SpecRecords == InitFolder /\ [][NextRecords]_vars

(***************************************************************************)
(* The PAO specification: PaoData records are constructed from, and given, *)
(* files that are complete, lack one marker or carry a malformed value.    *)
(***************************************************************************)
PaoContents == {1, 2, 4} \cup 6..12

NextPao ==
    \/ \E cls \in DataClasses, c \in PaoContents : Construct(cls, c)
    \/ \E n \in DOMAIN nodes, c \in PaoContents : SetFile(n, c)
    \/ \E n \in DOMAIN nodes : StoreRecord(n)

SpecPao == InitFolder /\ [][NextPao]_vars

(***************************************************************************)
(* Two processes in create_from_folder with the same label.  Each statement *)
(* of the call that reads or writes the store is a step of its own: the    *)
(* label lookup, the parsing of the directory (with its get_or_create      *)
(* queries), the store of the basis set, the store of each record, and the *)
(* attaching of the records.                                               *)
(***************************************************************************)
RaceLabel == LabelSoft
RaceDirs == {DirA, DirAr3}

Failed(p, err) == [procs EXCEPT ![p].pc = "failed", ![p].err = err]

\* cls.objects.get(label=label) and the constructor cls(label=label)
RaceGetLabel(p, gcls, dir, dedup) ==
    /\ procs[p].pc = "idle"
    /\ LET held == Labelled(gcls, RaceLabel, groups)
           me == [procs[p] EXCEPT !.cls = gcls, !.dir = dir, !.dedup = dedup] IN
       procs' = [procs EXCEPT ![p] =
                    IF Cardinality(held) > 1
                    THEN [me EXCEPT !.pc = "failed", !.err = "MultipleObjectsError"]
                    ELSE IF held # {}
                    THEN [me EXCEPT !.pc = "failed", !.err = "ValueError: label already exists"]
                    ELSE IF ~LabelAccepted(gcls, RaceLabel)
                    THEN [me EXCEPT !.pc = "failed", !.err = "ValueError: not a valid OpenMX label"]
                    ELSE [me EXCEPT !.pc = "parse"]]
    /\ UNCHANGED <<nodes, groups, result, goc_log>>

\* cls.parse_bases_from_directory(dirpath, basis_type, deduplicate)
RaceParse(p) ==
    /\ procs[p].pc = "parse"
    /\ \E o \in parse_bases_from_directory(procs[p].cls, procs[p].dir, None, procs[p].dedup, nodes) :
          procs' = IF o.err # "ok" THEN Failed(p, o.err)
                   ELSE [procs EXCEPT ![p].pc = "store", ![p].bases = o.bases]
    /\ UNCHANGED <<nodes, groups, result, goc_log>>

\* basis_set.store()
RaceStoreGroup(p) ==
    /\ procs[p].pc = "store"
    /\ IF StoreConflict(procs[p].cls, RaceLabel, groups)
       THEN /\ procs' = Failed(p, "IntegrityError")
            /\ UNCHANGED groups
       ELSE /\ Len(groups) < MaxGroups
            /\ groups' = Append(groups, [NewGroup(procs[p].cls, RaceLabel) EXCEPT !.stored = TRUE])
            /\ procs' = [procs EXCEPT ![p].pc = "bases", ![p].g = Len(groups) + 1]
    /\ UNCHANGED <<nodes, result, goc_log>>

\* the loop changed to attach each record as soon as it is stored
RaceStoreBasisAttached(p) ==
    /\ procs[p].pc = "bases"
    /\ Len(procs[p].ids) < Len(procs[p].bases)
    /\ LET st == StoreBases(<<procs[p].bases[Len(procs[p].ids) + 1]>>, nodes) IN
       /\ Len(st.nodes) <= MaxNodes
       /\ nodes' = st.nodes
       /\ \E a \in add_nodes(groups[procs[p].g], st.ids, st.nodes) :
             /\ groups' = [groups EXCEPT ![procs[p].g] = a.grp]
             /\ procs' = IF st.err # "ok" THEN Failed(p, st.err)
                         ELSE IF a.err # "ok" THEN Failed(p, a.err)
                         ELSE [procs EXCEPT ![p].ids = @ \o st.ids]
    /\ UNCHANGED <<result, goc_log>>

\* basis.store() for the next of the parsed records
RaceStoreBasis(p) ==
    /\ procs[p].pc = "bases"
    /\ Len(procs[p].ids) < Len(procs[p].bases)
    /\ LET st == StoreBases(<<procs[p].bases[Len(procs[p].ids) + 1]>>, nodes) IN
       /\ Len(st.nodes) <= MaxNodes
       /\ nodes' = st.nodes
       /\ procs' = IF st.err # "ok" THEN Failed(p, st.err)
                   ELSE [procs EXCEPT ![p].ids = @ \o st.ids]
    /\ UNCHANGED <<groups, result, goc_log>>

\* basis_set.add_nodes(...) with the stored records
RaceAddNodes(p) ==
    /\ procs[p].pc = "bases"
    /\ Len(procs[p].ids) = Len(procs[p].bases)
    /\ \E a \in add_nodes(groups[procs[p].g], procs[p].ids, nodes) :
          /\ groups' = [groups EXCEPT ![procs[p].g] = a.grp]
          /\ procs' = IF a.err # "ok" THEN Failed(p, a.err)
                      ELSE [procs EXCEPT ![p].pc = "done"]
    /\ UNCHANGED <<nodes, result, goc_log>>

NextRace ==
    \/ \E p \in Procs, gcls \in GroupClasses, dir \in RaceDirs, dedup \in BOOLEAN :
          RaceGetLabel(p, gcls, dir, dedup)
    \/ \E p \in Procs : RaceParse(p)
    \/ \E p \in Procs : RaceStoreGroup(p)
    \/ \E p \in Procs : RaceStoreBasis(p)
    \/ \E p \in Procs : RaceAddNodes(p)

SpecRace == InitFolder /\ [][NextRace]_vars

(***************************************************************************)
(* The kinds specification: basis sets of both classes, stored or only     *)
(* constructed, over a store with records of both kinds, one of them not   *)
(* stored.                                                                 *)
(***************************************************************************)
\* a stored BasisData record whose element was assigned before it was stored
StoredBasis(c, element) ==
    [NewBasis("BasisData", c).node EXCEPT !.element = element, !.stored = TRUE]

\* the constructor cls(label=label)
NewBasisSet(gcls, label) ==
    /\ Len(groups) < MaxGroups
    /\ IF LabelAccepted(gcls, label)
       THEN /\ groups' = Append(groups, NewGroup(gcls, label))
            /\ result' = [Res("construct", "ok") EXCEPT
                             !.cls = gcls, !.label = label, !.g = Len(groups) + 1]
       ELSE /\ result' = [Res("construct", "ValueError: not a valid OpenMX label") EXCEPT
                             !.cls = gcls, !.label = label]
            /\ UNCHANGED groups
    /\ UNCHANGED <<nodes, goc_log, procs>>

\* Group.store of a basis set that was only constructed
StoreGroup(g) ==
    /\ g \in DOMAIN groups
    /\ ~groups[g].stored
    /\ IF StoreConflict(groups[g].cls, groups[g].label, groups)
       THEN /\ result' = [Res("store_group", "IntegrityError") EXCEPT !.g = g]
            /\ UNCHANGED groups
       ELSE /\ groups' = [groups EXCEPT ![g].stored = TRUE]
            /\ result' = [Res("store_group", "ok") EXCEPT !.g = g]
    /\ UNCHANGED <<nodes, goc_log, procs>>

InitKinds ==
    /\ nodes = <<StoredPao(1), StoredBasis(2, "He"), NewBasis("PaoData", 2).node>>
    /\ groups = <<>>
    /\ result = NoResult
    /\ goc_log = NoCalls
    /\ procs = NoProcs

Stored(g) == g \in DOMAIN groups /\ groups[g].stored

NextKinds ==
    \/ \E gcls \in GroupClasses : NewBasisSet(gcls, LabelSoft)
    \/ \E g \in DOMAIN groups : StoreGroup(g)
    \/ \E g \in DOMAIN groups, batch \in Batches : AddNodes(g, batch)
    \/ \E g \in DOMAIN groups, element \in ValidSymbols : Stored(g) /\ GetBasis(g, element)

SpecKinds == InitKinds /\ [][NextKinds]_vars

(***************************************************************************)
(* OpenMX configurations: the bundled metadata, the resolver methods of    *)
(* OpenmxBasisSet, download_openmx and the install command.                *)
(***************************************************************************)
\* The metadata package: one JSON document per valid configuration, keyed by
\* element in file order.  The documents used here list argon and helium; the
\* optional hardness / open_core flags of the entries differ per protocol: the
\* quick documents give a hardness (and an open_core flag as well for argon),
\* the standard documents an open_core flag, the precise documents neither.
MetadataElements == <<"Ar", "He">>

MetadataEntry(key, e) ==
    [filename |-> IF e = "Ar" THEN FnAr ELSE FnHe,
     md5 |-> IF e = "Ar" THEN Md5(1) ELSE Md5(2),
     orbital_configuration |-> OCValid,
     hardness |-> IF key[2] = "quick" THEN key[3] ELSE None,
     open_core |-> IF key[2] = "standard" THEN (IF e = "Ar" THEN "true" ELSE "false")
                   ELSE IF key[2] = "quick" /\ e = "Ar" THEN "true"
                   ELSE None]

MetadataFiles == valid_configurations

NoMetadata == [elements |-> <<>>, entry |-> EmptyMap]

\* OpenmxBasisSet.get_configuration_metadata: opens the metadata file of the key
get_configuration_metadata(key) ==
    IF key \in MetadataFiles
    THEN [err |-> "ok", loads |-> 1,
          metadata |-> [elements |-> MetadataElements,
                        entry |-> [e \in Range(MetadataElements) |-> MetadataEntry(key, e)]]]
    ELSE [err |-> "FileNotFoundError", loads |-> 1, metadata |-> NoMetadata]

\* OpenmxBasisSet.get_element_metadata
get_element_metadata(element, key) ==
    LET md == get_configuration_metadata(key) IN
    IF md.err # "ok" THEN [err |-> md.err, loads |-> md.loads, named |-> {}]
    ELSE IF element \notin DOMAIN md.metadata.entry
    THEN [err |-> "ValueError: element has no entry in the metadata", loads |-> md.loads, named |-> {element}]
    ELSE [err |-> "ok", loads |-> md.loads, named |-> {element}]

\* OpenmxBasisSet.get_md5s_configuration
get_md5s_configuration(key) ==
    IF key \notin valid_configurations
    THEN [err |-> "ValueError: not a valid configuration", loads |-> 0, named |-> {}]
    ELSE LET md == get_configuration_metadata(key) IN
         [err |-> md.err, loads |-> md.loads, named |-> DOMAIN md.metadata.entry]

\* OpenmxBasisSet.get_orbital_configs_configuration
get_orbital_configs_configuration(key) ==
    IF key \notin valid_configurations
    THEN [err |-> "ValueError: not a valid configuration", loads |-> 0, named |-> {}]
    ELSE LET md == get_configuration_metadata(key) IN
         [err |-> md.err, loads |-> md.loads, named |-> DOMAIN md.metadata.entry]

url_version == ("19" :> "vps_pao2019/") @@ ("13" :> "vps_pao2013/")

\* the layout chosen with the open_core flag tested before the hardness
UrlOpenCoreFirst(key, e, entry) ==
    [version |-> url_version[key[1]], element |-> e, filename |-> entry.filename,
     layout |-> IF entry.open_core = "true" THEN "{element}_OC"
                ELSE IF entry.open_core = "false" THEN "{element}"
                ELSE IF entry.hardness = "hard" THEN "{element}_Hard"
                ELSE IF entry.hardness = "soft" THEN "{element}_Soft"
                ELSE ""]

\* the location of one file: the layout chosen from the flags of its entry
Url(key, e, entry) ==
    [version |-> url_version[key[1]], element |-> e, filename |-> entry.filename,
     layout |-> IF entry.hardness = "hard" THEN "{element}_Hard"
                ELSE IF entry.hardness = "soft" THEN "{element}_Soft"
                ELSE IF entry.open_core = "true" THEN "{element}_OC"
                ELSE IF entry.open_core = "false" THEN "{element}"
                ELSE ""]

\* the loop of download_openmx: one request per element, in metadata order;
\* fetched[e] is the content the server answers with, 0 for an HTTP error
RECURSIVE Download(_, _, _, _)
Download(order, key, md, fetched) ==
    IF order = <<>> THEN [err |-> "ok", urls |-> <<>>, files |-> {}]
    ELSE LET e == Head(order) IN
         IF key[1] \notin DOMAIN url_version
         THEN [err |-> "KeyError", urls |-> <<>>, files |-> {}]
         ELSE IF fetched[e] = 0
         THEN [err |-> "HTTPError", urls |-> <<Url(key, e, md.entry[e])>>, files |-> {}]
         ELSE LET rest == Download(Tail(order), key, md, fetched) IN
              [err |-> rest.err, urls |-> <<Url(key, e, md.entry[e])>> \o rest.urls,
               files |-> {File(md.entry[e].filename, fetched[e])} \cup rest.files]

\* download_openmx: an exception inside `attempt` ends the command (echo_critical)
download_openmx(key, fetched) ==
    LET md == get_configuration_metadata(key) IN
    IF md.err # "ok"
    THEN [err |-> md.err, cause |-> md.err, loads |-> md.loads, urls |-> <<>>, dir |-> NotADir]
    ELSE LET d == Download(md.metadata.elements, key, md.metadata, fetched) IN
         [err |-> IF d.err = "ok" THEN "ok" ELSE "Critical: downloading failed", cause |-> d.err,
          loads |-> md.loads, urls |-> d.urls, dir |-> Dir(d.files)]

\* the keyword-only parameters of BasisSet.create_from_folder
create_from_folder_keywords == {"description", "basis_type", "deduplicate"}

\* the errors of create_from_folder that are ValueErrors
ValueErrors ==
    {"ValueError: could not parse the element", "ValueError: atomic number not in elements",
     "ValueError: entry is not a file", "ValueError: not a valid element",
     "ValueError: not a directory", "ValueError: basis_type needs to be passed",
     "ValueError: basis_type not supported", "ValueError: no bases were parsed",
     "ValueError: duplicate elements", "ValueError: label already exists",
     "ValueError: not a valid OpenMX label", "ValueError: element already present",
     "ValueError: unstored node", "ValueError: could not parse the Z valence",
     "ValueError: Z valence is not an integer", "ValueError: could not parse the radial cutoff",
     "ValueError: not a positive float", "ValueError: could not parse the maximum occupied n",
     "ValueError: could not parse the maximum l", "ValueError: could not parse the number of PAOs"}

\* cli.utils.create_basis_set_from_directory: create_from_folder is called with
\* the keyword pseudo_type; a ValueError is turned into an OSError
create_basis_set_from_directory(gcls, label, dir, basis_type, ns, gs) ==
    IF "pseudo_type" \notin create_from_folder_keywords
    THEN {Created("TypeError", ns, gs, 0)}
    ELSE {IF c.err \in ValueErrors THEN [c EXCEPT !.err = "OSError"] ELSE c
          : c \in create_from_folder(gcls, label, dir, basis_type, TRUE, ns, gs)}

\* the verification loop of cmd_install_openmx over the metadata elements:
\* Group.objects.delete removes the group, the records stay in the store
RECURSIVE VerifyMd5(_, _, _, _)
VerifyMd5(order, md, grp, ns) ==
    IF order = <<>> THEN {Outcome("ok", {}, grp)}
    ELSE UNION {
           IF b.err # "ok" THEN {Outcome(b.err, {Head(order)}, b.grp)}
           ELSE IF ns[b.ret].md5 # md.entry[Head(order)].md5
           THEN {Outcome("Critical: md5 does not match", {Head(order)}, [b.grp EXCEPT !.deleted = TRUE])}
           ELSE VerifyMd5(Tail(order), md, b.grp, ns)
           : b \in get_basis(grp, Head(order), ns) }

Installed(err, cause, named, loads, urls, ns, gs, g) ==
    [err |-> err, cause |-> cause, named |-> named, loads |-> loads, urls |-> urls,
     nodes |-> ns, groups |-> gs, g |-> g]

\* QueryBuilder().append(OpenmxBasisSet, filters={'label': label}).first()
QueryLabel(label, gs) ==
    {g \in DOMAIN gs : gs[g].stored /\ ~gs[g].deleted /\ gs[g].label = label
                       /\ IsGroupSubclass(gs[g].cls, "OpenmxBasisSet")}

\* cmd_install_openmx after the download: create, verify, annotate
InstallFromDirectory(label, md, dl, ns, gs) ==
    UNION {
      IF c.err # "ok"
      THEN {Installed("Critical: parsing PAOs failed", c.err, {}, 1 + dl.loads, dl.urls, c.nodes, c.groups, c.g)}
      ELSE UNION {
             IF v.err # "ok"
             THEN {Installed(v.err, v.err, v.named, 1 + dl.loads, dl.urls, c.nodes,
                             [c.groups EXCEPT ![c.g] = v.grp], c.g)}
             ELSE {Installed(o.err, o.err, o.named, 1 + dl.loads, dl.urls, c.nodes,
                             [c.groups EXCEPT ![c.g] = o.grp], c.g)
                   : o \in set_orbital_configurations(
                              v.grp, [e \in DOMAIN md.entry |-> md.entry[e].orbital_configuration], c.nodes)}
             : v \in VerifyMd5(md.elements, md, c.groups[c.g], c.nodes) }
      : c \in create_basis_set_from_directory("OpenmxBasisSet", label, dl.dir, None, ns, gs) }

\* cmd_install_openmx without the test of lines 133-134: the metadata file is
\* opened whatever the key
cmd_install_openmx_unchecked(key, fetched, ns, gs) ==
    LET label == format_configuration_label(key)
        md == get_configuration_metadata(key)
        dl == download_openmx(key, fetched)
    IN  IF md.err # "ok"
        THEN {Installed(md.err, md.err, {}, md.loads, <<>>, ns, gs, 0)}
        ELSE IF QueryLabel(label, gs) # {}
        THEN {Installed("Critical: already installed", "ok", {}, md.loads, <<>>, ns, gs, 0)}
        ELSE IF dl.err # "ok"
        THEN {Installed(dl.err, dl.cause, {}, md.loads + dl.loads, dl.urls, ns, gs, 0)}
        ELSE InstallFromDirectory(label, md.metadata, dl, ns, gs)

\* cmd_install_openmx: the possible results on store (ns, gs)
cmd_install_openmx(key, fetched, ns, gs) ==
    IF key \notin valid_configurations
    THEN {Installed("Critical: not a valid configuration", "ok", {}, 0, <<>>, ns, gs, 0)}
    ELSE LET label == format_configuration_label(key)
             md == get_configuration_metadata(key)
             dl == download_openmx(key, fetched)
         IN  IF md.err # "ok"
             THEN {Installed(md.err, md.err, {}, md.loads, <<>>, ns, gs, 0)}
             ELSE IF QueryLabel(label, gs) # {}
             THEN {Installed("Critical: already installed", "ok", {}, md.loads, <<>>, ns, gs, 0)}
             ELSE IF dl.err # "ok"
             THEN {Installed(dl.err, dl.cause, {}, md.loads + dl.loads, dl.urls, ns, gs, 0)}
             ELSE InstallFromDirectory(label, md.metadata, dl, ns, gs)

\* configuration keys and server answers the resolver is called with
Keys == {<<"19", "quick", "soft">>, <<"19", "quick", "hard">>, <<"19", "standard", "soft">>,
         <<"19", "precise", "soft">>, <<"19", "standard", "extreme">>, <<"13", "standard", "soft">>,
         <<"20", "quick", "soft">>}

\* the answers of the server: the argon and helium files of the metadata, a
\* different argon file, the argon file served for helium, a file without the
\* AtomSpecies marker, and an HTTP error for either element
Fetched(ar, he) == ("Ar" :> ar) @@ ("He" :> he)
Fetches == {Fetched(1, 2), Fetched(3, 2), Fetched(1, 1), Fetched(4, 2), Fetched(0, 2), Fetched(1, 0)}

Resolved(op, key, r) ==
    [Res(op, r.err) EXCEPT !.key = key, !.loads = r.loads, !.named = r.named]

GetConfigurationMetadata(key) ==
    /\ result' = [Res("get_configuration_metadata", get_configuration_metadata(key).err) EXCEPT
                     !.key = key, !.loads = get_configuration_metadata(key).loads]
    /\ UNCHANGED <<nodes, groups, goc_log, procs>>

GetElementMetadata(element, key) ==
    /\ result' = Resolved("get_element_metadata", key, get_element_metadata(element, key))
    /\ UNCHANGED <<nodes, groups, goc_log, procs>>

GetMd5sConfiguration(key) ==
    /\ result' = Resolved("get_md5s_configuration", key, get_md5s_configuration(key))
    /\ UNCHANGED <<nodes, groups, goc_log, procs>>

GetOrbitalConfigsConfiguration(key) ==
    /\ result' = Resolved("get_orbital_configs_configuration", key, get_orbital_configs_configuration(key))
    /\ UNCHANGED <<nodes, groups, goc_log, procs>>

DownloadOpenmx(key, fetched) ==
    /\ LET d == download_openmx(key, fetched) IN
       result' = [Res("download_openmx", d.err) EXCEPT
                     !.key = key, !.fetched = fetched, !.cause = d.cause, !.loads = d.loads,
                     !.urls = d.urls, !.fetches = Len(d.urls)]
    /\ UNCHANGED <<nodes, groups, goc_log, procs>>

CmdInstallOpenmx(key, fetched) ==
    \E i \in cmd_install_openmx(key, fetched, nodes, groups) :
        /\ Len(i.nodes) <= MaxNodes
        /\ Len(i.groups) <= MaxGroups
        /\ nodes' = i.nodes
        /\ groups' = i.groups
        /\ result' = [Res("cmd_install_openmx", i.err) EXCEPT
                         !.key = key, !.fetched = fetched, !.cause = i.cause, !.named = i.named,
                         !.loads = i.loads, !.urls = i.urls, !.fetches = Len(i.urls),
                         !.g = i.g, !.label = format_configuration_label(key)]
        /\ UNCHANGED <<goc_log, procs>>

(***************************************************************************)
(* The install specification: an empty store, then any sequence of         *)
(* resolver calls and installs; a basis set may also be created by hand    *)
(* under a configuration label from a directory of PAO files.              *)
(***************************************************************************)
InstallLabels == {format_configuration_label(<<"19", "standard", "soft">>),
                  format_configuration_label(<<"19", "quick", "hard">>)}

NextInstall ==
    \/ \E key \in Keys : GetConfigurationMetadata(key)
    \/ \E key \in Keys, element \in ValidSymbols : GetElementMetadata(element, key)
    \/ \E key \in Keys : GetMd5sConfiguration(key)
    \/ \E key \in Keys : GetOrbitalConfigsConfiguration(key)
    \/ \E key \in Keys, fetched \in Fetches : DownloadOpenmx(key, fetched)
    \/ \E key \in Keys, fetched \in Fetches : CmdInstallOpenmx(key, fetched)
    \/ \E label \in InstallLabels, dir \in {DirA, DirAr3} :
          CreateFromFolder("OpenmxBasisSet", label, dir, None, TRUE)

SpecInstall == InitFolder /\ [][NextInstall]_vars

(***************************************************************************)
(* Properties.                                                             *)
(***************************************************************************)
MemberElements(g) == ElementsOf(groups[g].members, nodes)

\* C1: in every state reached by create_from_folder, add_nodes, remove_nodes
\* and clear, no two members of a basis set have the same element, neither in
\* the store membership nor in the cached element index.
MembersHaveDistinctElements ==
    \A g \in DOMAIN groups :
        /\ \A i, j \in groups[g].members : nodes[i].element = nodes[j].element => i = j
        /\ groups[g].bases.set =>
              \A e1, e2 \in DOMAIN groups[g].bases.map :
                  nodes[groups[g].bases.map[e1]].element = nodes[groups[g].bases.map[e2]].element
                      => e1 = e2

\* C2: an add_nodes call on a stored basis set with records of an allowed type,
\* one of which has an element that a member of the set already has, raises the
\* "already present" error naming such an element, and neither the store
\* membership nor the cached index gains a record of the batch.
AddNodesRejectsPresentElement ==
    [][\A g \in DOMAIN groups :
          ( /\ result'.op = "add_nodes"
            /\ result'.g = g
            /\ groups[g].stored
            /\ \A i \in DOMAIN result'.batch :
                  IsInstance(nodes[result'.batch[i]].cls, basis_types(groups[g].cls))
            /\ \E i \in DOMAIN result'.batch : nodes[result'.batch[i]].element \in MemberElements(g) )
          => ( /\ result'.err = "ValueError: element already present"
               /\ result'.named # {}
               /\ result'.named \subseteq
                     MemberElements(g) \cap ElementsOf(Range(result'.batch), nodes)
               /\ groups'[g].members = groups[g].members
               /\ groups'[g].bases.set =>
                     \A e \in DOMAIN groups'[g].bases.map :
                         groups'[g].bases.map[e] \in Range(result'.batch)
                             => groups'[g].bases.map[e] \in groups[g].members )]_vars

\* C3: whenever orbital configurations are stored on a basis set, their key set
\* equals the set of elements of the members of the basis set.
OrbitalKeysEqualElements ==
    \A g \in DOMAIN groups :
        groups[g].orbitals.set => DOMAIN groups[g].orbitals.map = MemberElements(g)

\* the cached index of g, when filled, lists exactly the elements of the members
CacheListsMembers(g) ==
    groups[g].bases.set => DOMAIN groups[g].bases.map = MemberElements(g)

\* C4: set_orbital_configurations with a mapping whose key set differs from the
\* element set of the basis set fails with a validation error that names every
\* element of the symmetric difference, and leaves the stored mapping as it was.
SetOrbitalsRejectsOtherKeySets ==
    [][\A g \in DOMAIN groups :
          ( /\ result'.op = "set_orbital_configurations"
            /\ result'.g = g
            /\ CacheListsMembers(g)
            /\ DOMAIN result'.oc # MemberElements(g) )
          => ( /\ result'.err \in {"ValueError: unsupported elements",
                                   "ValueError: not defined for all elements"}
               /\ result'.named = SymDiff(MemberElements(g), DOMAIN result'.oc)
               /\ groups'[g].orbitals = groups[g].orbitals )]_vars

\* the server answers with a PAO file of the right element for every element
\* of the metadata of key
FetchedParse(key, fetched) ==
    \A e \in Range(MetadataElements) :
        /\ fetched[e] # 0
        /\ NewBasis("PaoData", fetched[e]).err = "ok"
        /\ NewBasis("PaoData", fetched[e]).node.element = e

\* the elements of the metadata of key whose fetched file has another md5
Mismatched(key, fetched) ==
    {e \in Range(MetadataElements) : Md5(fetched[e]) # MetadataEntry(key, e).md5}

\* an install of a valid configuration that is not installed yet
InstallStep ==
    /\ result'.op = "cmd_install_openmx"
    /\ result'.key \in valid_configurations
    /\ QueryLabel(result'.label, groups) = {}

\* C5: an install in which the PAO file of some metadata element has an md5
\* other than that of the metadata fails with the md5 error naming such an
\* element, and afterwards no basis set carries the label of the configuration.
InstallMismatchIsReported ==
    [][( /\ InstallStep
         /\ FetchedParse(result'.key, result'.fetched)
         /\ Mismatched(result'.key, result'.fetched) # {} )
       => ( /\ result'.err = "Critical: md5 does not match"
            /\ result'.named # {}
            /\ result'.named \subseteq Mismatched(result'.key, result'.fetched)
            /\ QueryLabel(result'.label, groups') = {} )]_vars

\* C6: an install that meets an md5 mismatch has created a basis set, and has
\* deleted it again together with every record that was attached to it: the
\* basis set is gone and none of its records is in the store any more.
InstallMismatchRollsBack ==
    [][( /\ InstallStep
         /\ FetchedParse(result'.key, result'.fetched)
         /\ Mismatched(result'.key, result'.fetched) # {} )
       => ( /\ result'.g \in DOMAIN groups' \ DOMAIN groups
            /\ groups'[result'.g].deleted
            /\ \A i \in groups'[result'.g].members : i \notin DOMAIN nodes' \/ ~nodes'[i].stored )]_vars

\* C7: an install of a valid configuration that is not installed yet, in which
\* every fetch succeeds with a file whose md5 is that of the metadata, ends
\* successfully with a stored OpenmxBasisSet under the label of the
\* configuration whose elements are those of the metadata and whose orbital
\* configurations are those of the metadata.
InstallSucceeds ==
    [][( /\ InstallStep
         /\ FetchedParse(result'.key, result'.fetched)
         /\ Mismatched(result'.key, result'.fetched) = {} )
       => ( /\ result'.err = "ok"
            /\ \E g \in QueryLabel(result'.label, groups') :
                  /\ groups'[g].cls = "OpenmxBasisSet"
                  /\ ElementsOf(groups'[g].members, nodes') = Range(MetadataElements)
                  /\ groups'[g].orbitals.set
                  /\ groups'[g].orbitals.map =
                        [e \in Range(MetadataElements) |->
                            MetadataEntry(result'.key, e).orbital_configuration] )]_vars

ResolverOperations ==
    {"get_configuration_metadata", "get_element_metadata", "get_md5s_configuration",
     "get_orbital_configs_configuration", "download_openmx", "cmd_install_openmx"}

\* C8: a resolver operation called with a key that is not a valid configuration
\* fails, and has attempted no metadata load and no fetch.
InvalidKeyFailsBeforeLoad ==
    (result.op \in ResolverOperations /\ result.key \notin valid_configurations)
        => (result.err # "ok" /\ result.loads = 0 /\ result.fetches = 0)

\* C9 as stated: for each class and content, all get_or_create calls return
\* one and the same record.
GetOrCreateOneIdentity ==
    \A k \in GocKeys : Cardinality(goc_log[k].rets) <= 1

\* C9: once a record of the class with the content is stored, get_or_create for
\* that class and content succeeds and returns a stored record of exactly that
\* class and content (the same one on every call while it is the only one),
\* whatever the file name declares, and leaves every record as it was; while no
\* such record is stored, a successful call returns a new unstored record.
GetOrCreateReturnsStoredUnchanged ==
    [][result'.op = "get_or_create" =>
          LET hits == Existing(result'.key[1], result'.key[2], nodes) IN
          IF hits # {}
          THEN /\ result'.err = "ok"
               /\ result'.ret \in hits
               /\ nodes' = nodes
          ELSE result'.err = "ok" =>
                  /\ result'.ret = Len(nodes) + 1
                  /\ Len(nodes') = Len(nodes) + 1
                  /\ ~nodes'[result'.ret].stored]_vars

\* a second call for a content returned the stored record although the file
\* name declares another element than the record has
GetOrCreateHitOtherName ==
    /\ result.op = "get_or_create"
    /\ result.err = "ok"
    /\ result.ret \in DOMAIN nodes
    /\ nodes[result.ret].stored
    /\ goc_log[<<result.key[1], result.key[2]>>].calls = 2
    /\ result.key[3] \in ValidSymbols
    /\ result.key[3] # nodes[result.ret].element

\* the errors of create_from_folder that come from validating the directory
FolderValidationErrors ==
    {"ValueError: could not parse the element", "ValueError: atomic number not in elements",
     "ParsingError: no element", "ValueError: not a valid element",
     "ValueError: entry is not a file", "ValueError: not a directory",
     "ValueError: basis_type needs to be passed", "ValueError: basis_type not supported",
     "ValueError: no bases were parsed", "ValueError: duplicate elements"}

\* C10: a create_from_folder call that fails validation leaves the store as it
\* was, no record stored and no group added, and no basis set of the class
\* carries the label.
FailedCreatePersistsNothing ==
    [][(result'.op = "create_from_folder" /\ result'.err \in FolderValidationErrors)
       => ( /\ nodes' = nodes
            /\ groups' = groups
            /\ Labelled(result'.cls, result'.label, groups') = {} )]_vars

\* Scenario B has been run: two files yielding argon, rejected as duplicates
DuplicateElementsRejected ==
    /\ result.op = "create_from_folder"
    /\ result.err = "ValueError: duplicate elements"
    /\ Labelled(result.cls, result.label, groups) = {}

\* C11: a create_from_folder call that succeeds on a directory of N files has
\* added a stored basis set of the class under the label whose members are N
\* stored records, one for the content of each file, with N distinct elements.
CreateStoresEveryFile ==
    [][(result'.op = "create_from_folder" /\ result'.err = "ok") =>
          LET g == result'.g
              files == _validate_dirpath(result'.dir).entries
          IN  /\ g = Len(groups) + 1
              /\ Len(groups') = g
              /\ groups'[g].stored /\ ~groups'[g].deleted
              /\ groups'[g].label = result'.label
              /\ groups'[g].cls = result'.cls
              /\ Cardinality(groups'[g].members) = Cardinality(files)
              /\ \A i \in groups'[g].members : i \in DOMAIN nodes' /\ nodes'[i].stored
              /\ Cardinality(ElementsOf(groups'[g].members, nodes')) = Cardinality(files)
              /\ {nodes'[i].content : i \in groups'[g].members} = {f.content : f \in files}]_vars

\* Scenario A has been run: Ar.pao and He.pao gave a basis set of two members
ScenarioACreated ==
    /\ result.op = "create_from_folder"
    /\ result.err = "ok"
    /\ result.dir = DirA
    /\ result.g \in DOMAIN groups
    /\ Cardinality(groups[result.g].members) = 2
    /\ ElementsOf(groups[result.g].members, nodes) = {"Ar", "He"}


\* C12: a create_from_folder call whose label is already carried by a stored
\* basis set fails with the error that the label exists, and leaves the records
\* and the basis sets, the memberships included, as they were.
LabelHolders(label) ==
    {g \in DOMAIN groups : groups[g].stored /\ ~groups[g].deleted /\ groups[g].label = label}

CreateRejectsTakenLabel ==
    [][(result'.op = "create_from_folder" /\ LabelHolders(result'.label) # {}) =>
          /\ result'.err = "ValueError: label already exists"
          /\ nodes' = nodes
          /\ groups' = groups]_vars


\* C13: of two processes that ran create_from_folder with one label, at most
\* one basis set with the label is in the store at any time; when both have
\* ended, one of them has failed with an error, and the basis set of a process
\* that succeeded has exactly the records that process stored as members.
RaceEnded == \A p \in Procs : procs[p].pc \in {"done", "failed"}

RaceOneBasisSet ==
    /\ Cardinality(LabelHolders(RaceLabel)) <= 1
    /\ RaceEnded =>
          /\ \E p \in Procs : procs[p].pc = "failed" /\ procs[p].err # "ok"
          /\ \A p \in Procs : procs[p].pc = "done" =>
                groups[procs[p].g].members = Range(procs[p].ids)


\* C14: get_bases(elements=E) returns the mapping of every element of E to the
\* member of the basis set with that element when each element of E has a
\* member; otherwise it fails with the error that the basis set has no basis
\* for an element, and the error names every element of E that has no member.
MissingElements(g, elements) == Range(elements.list) \ ElementsOf(groups[g].members, nodes)

GetBasesListsEveryMissing ==
    [][(result'.op = "get_bases" /\ result'.elements.given) =>
          LET g == result'.g
              E == Range(result'.elements.list)
          IN  IF MissingElements(g, result'.elements) = {}
              THEN /\ result'.err = "ok"
                   /\ DOMAIN result'.map = E
                   /\ \A e \in E : /\ result'.map[e] \in groups[g].members
                                    /\ nodes[result'.map[e]].element = e
              ELSE /\ result'.err = "ValueError: no basis for element"
                   /\ result'.named = MissingElements(g, result'.elements)]_vars


\* C15: get_basis(element) returns a member of the basis set with that element
\* when there is one, and raises the error that the basis set has no basis for
\* the element exactly when no member has it; the record returned is the one
\* the store query for the element finds, and it is in the cache afterwards.
MembersWith(g, element) == {i \in groups[g].members : nodes[i].element = element}

GetBasisAnswersFromMembers ==
    [][result'.op = "get_basis" =>
          \A e \in result'.named :
            LET g == result'.g IN
            /\ MembersWith(g, e) # {} => result'.err = "ok" /\ result'.ret \in MembersWith(g, e)
            /\ result'.err = "ValueError: no basis for element" <=> MembersWith(g, e) = {}
            /\ result'.err = "ok" =>
                  /\ QueryBasis(groups[g], e, nodes) = {result'.ret}
                  /\ groups'[g].bases.set
                  /\ e \in DOMAIN groups'[g].bases.map
                  /\ groups'[g].bases.map[e] = result'.ret]_vars


\* C16: add_nodes on a basis set that is not stored raises
\* ModificationNotAllowed; on a stored one, a batch with a record whose class
\* is not among the basis types of the basis set raises TypeError, also when
\* an element of the batch is already present; in both cases the cache, the
\* membership and the records are left as they were.
WrongKind(g, batch) ==
    \E i \in DOMAIN batch : ~IsInstance(nodes[batch[i]].cls, basis_types(groups[g].cls))

AddNodesChecksStateAndKindFirst ==
    [][result'.op = "add_nodes" =>
          LET g == result'.g
              batch == result'.batch
          IN  /\ ~groups[g].stored =>
                    /\ result'.err = "ModificationNotAllowed"
                    /\ groups' = groups /\ nodes' = nodes
              /\ groups[g].stored /\ WrongKind(g, batch) =>
                    /\ result'.err = "TypeError"
                    /\ groups' = groups /\ nodes' = nodes]_vars

\* a batch with a record of the wrong kind and a record whose element a member
\* already has was answered with TypeError
WrongKindBeforeDuplicate ==
    /\ result.op = "add_nodes" /\ result.err = "TypeError"
    /\ groups[result.g].stored
    /\ WrongKind(result.g, result.batch)
    /\ \E i \in DOMAIN result.batch :
          nodes[result.batch[i]].element \in MemberElements(result.g)


\* C17: store() on a record whose element is not a valid symbol (none was
\* set) or whose md5 is not the md5 of its file fails with StoringNotAllowed
\* and leaves the record unstored; every stored record has a valid element and
\* an md5 equal to that of its file.
Valid(n) == n.element \in ValidSymbols /\ n.md5 = Md5(n.content)

StoredRecordsAreValid ==
    /\ [](\A i \in DOMAIN nodes : nodes[i].stored => Valid(nodes[i]))
    /\ [][(result'.op = "store" /\ ~Valid(nodes[result'.ret])) =>
             /\ result'.err \in {"StoringNotAllowed: no valid element",
                                  "StoringNotAllowed: md5 does not match"}
             /\ nodes' = nodes
             /\ ~nodes'[result'.ret].stored]_vars

\* store() has refused a record that has an element but a wrong md5
StoreRefusedWrongMd5 ==
    /\ result.op = "store" /\ result.err = "StoringNotAllowed: md5 does not match"
    /\ nodes[result.ret].element \in ValidSymbols
    /\ nodes[result.ret].md5 # Md5(nodes[result.ret].content)
    /\ ~nodes[result.ret].stored

\* C18: a stored record never changes: assigning its element, assigning its
\* md5 and set_file on it fail with ModificationNotAllowed, and its element,
\* md5, content and class are the same in every later state.
Changers == {"set_element", "set_md5", "set_attribute", "set_file"}

SameContentAndClass(cls, c) ==
    {i \in DOMAIN nodes : nodes[i].stored /\ nodes[i].cls = cls /\ nodes[i].content = c}

GetOrCreateMatchesExactClass ==
    [][(result'.op = "get_or_create" /\ result'.err = "ok") =>
          LET cls == result'.key[1]
              c == result'.key[2]
              ret == result'.ret
          IN  IF SameContentAndClass(cls, c) # {}
              THEN ret \in SameContentAndClass(cls, c) /\ nodes' = nodes
              ELSE /\ ret \notin DOMAIN nodes
                   /\ ret \in DOMAIN nodes'
                   /\ ~nodes'[ret].stored
                   /\ nodes'[ret].cls = cls /\ nodes'[ret].content = c
                   /\ \A i \in DOMAIN nodes : nodes'[i] = nodes[i]]_vars

\* get_or_create was asked for a content that is stored under another class and
\* returned a new record
GetOrCreateMissOtherClass ==
    /\ result.op = "get_or_create" /\ result.err = "ok"
    /\ result.ret = Len(nodes)
    /\ ~nodes[result.ret].stored
    /\ \E i \in DOMAIN nodes :
          /\ i # result.ret /\ nodes[i].stored
          /\ nodes[i].content = result.key[2]
          /\ nodes[i].cls # result.key[1]
          /\ IsSubclass(result.key[1], nodes[i].cls)


\* C20: set_orbital_configurations rejects every mapping with an entry that
\* has not exactly 4 components or has a component that is not a non-negative
\* integer, and leaves the stored mapping as it was; when the keys are the
\* elements of the basis set the error is the one about the entry and names
\* such an element.
WellFormed(cfg) ==
    Len(cfg) = 4 /\ \A i \in DOMAIN cfg : cfg[i].isint /\ cfg[i].val >= 0

MalformedEntries(oc) == {k \in DOMAIN oc : ~WellFormed(oc[k])}

SetOrbitalsRejectsMalformedEntries ==
    [][(result'.op = "set_orbital_configurations" /\ MalformedEntries(result'.oc) # {}) =>
          LET g == result'.g IN
          /\ result'.err # "ok"
          /\ groups'[g].orbitals = groups[g].orbitals
          /\ DOMAIN result'.oc = DOMAIN groups'[g].bases.map =>
                /\ result'.err \in {"ValueError: invalid length", "ValueError: invalid values"}
                /\ result'.named # {}
                /\ result'.named \subseteq MalformedEntries(result'.oc)]_vars


\* C21: get_orbital_configurations returns None on a basis set whose orbital
\* configurations were never set, and otherwise the mapping that the last
\* successful set_orbital_configurations stored.
GetOrbitalsNoneUntilSet ==
    [][result'.op = "get_orbital_configurations" =>
          IF groups[result'.g].orbitals.set
          THEN ~result'.none /\ result'.oc = groups[result'.g].orbitals.map
          ELSE result'.none]_vars

\* C22: cmd_install_openmx with a key outside valid_configurations ends with the
\* validity error, sends no request, opens no metadata file and leaves every
\* record and every basis set of the store as it was.
InstallRejectsInvalidKey ==
    [][( /\ result'.op = "cmd_install_openmx"
         /\ result'.key \notin valid_configurations )
       => ( /\ result'.err = "Critical: not a valid configuration"
            /\ result'.fetches = 0
            /\ result'.urls = <<>>
            /\ result'.loads = 0
            /\ nodes' = nodes
            /\ groups' = groups )]_vars

\* an install with hardness 'extreme' has ended
InstallExtremeEnded ==
    /\ result.op = "cmd_install_openmx"
    /\ result.key = <<"19", "standard", "extreme">>
    /\ result.err = "Critical: not a valid configuration"
    /\ result.fetches = 0

\* C24: on every basis set whose cached element index is filled, the index is
\* the element -> record mapping of the store membership: every record of the
\* index is a member filed under its own element, and every member is in it.
CacheEqualsMembership ==
    \A g \in DOMAIN groups :
        groups[g].bases.set =>
            /\ \A e \in DOMAIN groups[g].bases.map :
                  /\ groups[g].bases.map[e] \in groups[g].members
                  /\ nodes[groups[g].bases.map[e]].element = e
            /\ \A i \in groups[g].members :
                  /\ nodes[i].element \in DOMAIN groups[g].bases.map
                  /\ groups[g].bases.map[nodes[i].element] = i

\* the basis set of process p holds every record p parsed from its directory
Complete(p) ==
    /\ Len(procs[p].ids) = Len(procs[p].bases)
    /\ groups[procs[p].g].members = Range(procs[p].ids)

\* C25: in create_from_folder the basis set is stored, empty, before a record
\* is attached, and the records are attached in one step: at every point of
\* every call, also one that stops there, the basis set it stored has no
\* member or has all the records of the directory as members.
CreatedEmptyOrComplete ==
    /\ [](\A p \in Procs :
             procs[p].g # 0 =>
                 /\ groups[procs[p].g].stored
                 /\ groups[procs[p].g].members = {} \/ Complete(p))
    /\ [][\A g \in DOMAIN groups' :
             groups'[g].members # {} =>
                 /\ g \in DOMAIN groups
                 /\ groups[g].stored
                 /\ groups[g].members \in {{}, groups'[g].members}]_vars

\* one call has attached its two records, another has stored its basis set and
\* the first of its two records and has attached nothing yet
CreateBetweenStoreAndAttach ==
    \E p, q \in Procs :
        /\ procs[p].pc = "done"
        /\ Complete(p)
        /\ Cardinality(groups[procs[p].g].members) = 2
        /\ procs[q].pc = "bases"
        /\ groups[procs[q].g].stored
        /\ groups[procs[q].g].members = {}
        /\ Len(procs[q].ids) = 1
        /\ Len(procs[q].bases) = 2

\* C26: the store query of get_basis never has more than one record to return:
\* in every state, for every basis set and element, at most one member of the
\* allowed kinds has that element.
GetBasisQueryAtMostOne ==
    \A g \in DOMAIN groups : \A element \in ValidSymbols :
        Cardinality(QueryBasis(groups[g], element, nodes)) <= 1

\* C27: the assertion of update_basis_type never fails: the records cached for
\* a basis set are always of one class, and no add_nodes, remove_nodes or clear
\* ends with the AssertionError, with the cache changed or not.
BasisTypeAssertionHolds ==
    /\ [](\A g \in DOMAIN groups :
             groups[g].bases.set => Cardinality(CachedTypes(groups[g].bases.map, nodes)) <= 1)
    /\ [][result'.op \in {"add_nodes", "remove_nodes", "clear"}
             => result'.err # "AssertionError"]_vars

\* C28: a set_file on an unstored PaoData record that fails while the new
\* content is parsed leaves the record exactly as it was before the call:
\* file, md5, element and every other field.
FailedSetFileLeavesRecord ==
    [][\A n \in DOMAIN nodes :
          ( /\ result'.op = "set_file"
            /\ result'.ret = n
            /\ nodes[n].cls = "PaoData"
            /\ ~nodes[n].stored
            /\ result'.err # "ok" )
          => nodes'[n] = nodes[n]]_vars

\* the six values a complete parse of content c gives
Descriptor(c) ==
    [element |-> parse_element(c).element, z_valence |-> parse_z_valence(c).value,
     r_cutoff |-> parse_r_cutoff(c).value, max_occ_n |-> parse_max_occ_n(c).value,
     max_l |-> parse_max_l(c).value, num_pao |-> parse_num_pao(c).value]

\* the six fields as the attributes of record n that the store keeps
Attributes(n) ==
    [element |-> n.element, z_valence |-> n.z_valence, r_cutoff |-> n.r_cutoff,
     max_occ_n |-> n.max_occ_n, max_l |-> n.attribute_max_l, num_pao |-> n.num_pao]

\* C29: after a successful parse, by the constructor or by set_file, the six
\* parsed fields are attributes of the PaoData record with the values of its
\* file; a constructor whose parse fails returns no record.
ParsedFieldsArePersisted ==
    [][/\ ( /\ result'.op \in {"construct", "set_file"}
            /\ result'.err = "ok"
            /\ nodes'[result'.ret].cls = "PaoData" )
          => Attributes(nodes'[result'.ret]) = Descriptor(nodes'[result'.ret].content)
       /\ ( /\ result'.op = "construct"
            /\ result'.err # "ok" )
          => nodes' = nodes]_vars

\* the metadata elements download_openmx asks for when the server answers with
\* fetched: every element in metadata order, up to the first HTTP error
RECURSIVE Requested(_, _)
Requested(order, fetched) ==
    IF order = <<>> THEN <<>>
    ELSE IF fetched[Head(order)] = 0 THEN <<Head(order)>>
    ELSE <<Head(order)>> \o Requested(Tail(order), fetched)

\* C30: download_openmx sends one request per metadata element, in metadata
\* order, and the location of each follows the flags of the entry: hardness
\* 'hard' gives element/element_Hard, hardness 'soft' element/element_Soft,
\* otherwise open_core true gives element/element_OC, open_core false
\* element/element, and an entry with neither flag the plain element directory.
DownloadLayoutByPrecedence ==
    [][( /\ result'.op = "download_openmx"
         /\ result'.key \in MetadataFiles )
       => LET asked == Requested(MetadataElements, result'.fetched) IN
          /\ Len(result'.urls) = Len(asked)
          /\ result'.fetches = Len(asked)
          /\ (result'.err = "ok") = (\A e \in Range(MetadataElements) : result'.fetched[e] # 0)
          /\ \A i \in DOMAIN result'.urls :
                LET entry == MetadataEntry(result'.key, asked[i])
                    url == result'.urls[i] IN
                /\ url.element = asked[i]
                /\ url.filename = entry.filename
                /\ url.version = "vps_pao2019/"
                /\ entry.hardness = "hard" => url.layout = "{element}_Hard"
                /\ entry.hardness = "soft" => url.layout = "{element}_Soft"
                /\ (entry.hardness = None /\ entry.open_core = "true") => url.layout = "{element}_OC"
                /\ (entry.hardness = None /\ entry.open_core = "false") => url.layout = "{element}"
                /\ (entry.hardness = None /\ entry.open_core = None) => url.layout = ""]_vars

\* a download has asked for both files of a configuration whose argon entry
\* carries a hardness and an open_core flag, argon first
DownloadedEntryWithBothFlags ==
    /\ result.op = "download_openmx"
    /\ result.err = "ok"
    /\ Len(result.urls) = 2
    /\ MetadataEntry(result.key, "Ar").hardness = "hard"
    /\ MetadataEntry(result.key, "Ar").open_core = "true"
    /\ result.urls[1].element = "Ar"
    /\ result.urls[1].layout = "{element}_Hard"
    /\ result.urls[2].element = "He"
====
